---------------------------- MODULE Spec2Model ----------------------------
(***************************************************************************)
(* State-machine model of the training-center backend's two core           *)
(* subsystems:                                                             *)
(*   - VatsimConnectLibrary (login against the identity provider,          *)
(*     reconciliation of User/UserData, settings, session replacement;     *)
(*     updateUserData, the refresh with the tokens on file) and the        *)
(*     updateSettings controller;                                          *)
(*   - VateudCoreLibrary (createSolo / removeSolo with a job queue that    *)
(*     retries failed deliveries).                                         *)
(* Every asynchronous handler is cut at its awaits, so that two requests   *)
(* can interleave exactly where the event loop lets them.                  *)
(***************************************************************************)
EXTENDS Integers, Sequences, FiniteSets, TLC

\* ------------------------------------------------------------------ bounds
NumAttempts == 2    \* login objects (requests) that may be alive at once
MaxCid      == 2    \* users 1..MaxCid known to the identity provider
MaxSolo     == 2    \* UserSolo rows 1..MaxSolo
MaxJobs     == 2    \* pending jobs the queue may hold in the model
NumCalls    == 2    \* calls of createSolo/removeSolo that may be in progress

Attempts == 1..NumAttempts
Cids     == 1..MaxCid
SoloIds  == 1..MaxSolo
Calls    == 1..NumCalls

\* null / undefined of the source
NULL == "null"

\* --------------------------------------------------------------- variables
VARIABLES
    users,          \* User table:         cid -> row (exists flag + columns)
    userData,       \* UserData table:     cid -> row
    userSettings,   \* UserSettings table: cid -> row
    sessions,       \* UserSession table:  <<cid, browser>> -> number of rows
    banned,         \* users with an active ban (read by checkIsUserBanned)
    att,            \* one VatsimConnectLibrary object per login request
    pre,            \* durable state when the running login started (history)
    userSolo,       \* UserSolo table: id -> row
    jobs,           \* pending jobs, oldest first
    apiKey,         \* Config.VATEUD_CORE_CONFIG.API_KEY
    target,         \* sync target: "down" | "error" | "up"
    calls           \* the calls of createSolo/removeSolo in progress

loginVars == <<users, userData, userSettings, sessions, banned, att, pre>>
soloVars  == <<userSolo, jobs, apiKey, target, calls>>
vars      == <<users, userData, userSettings, sessions, banned, att, pre,
               userSolo, jobs, apiKey, target, calls>>


\* ------------------------------------------------------- identity provider
\* Browser identifiers a request may carry in "unique-browser-token"
\* (NULL: the header is absent).
Browsers == {"b1"}

\* Authorization codes a caller may pass: absent, empty, a real code.
Codes == {NULL, "", "abc123"}

\* m_connectOptions.client_scopes as configured for the deployment: a
\* space-delimited string, written here as the sequence of its scope names
\* and spaces.
client_scopes_string == <<"full_name", " ", "vatsim_details", " ", "email">>

\* String.prototype.split(sep) on such a string: the pieces between the
\* separators, "" where two separators are adjacent or at an end.
RECURSIVE split(_, _)
split(str, sep) ==
    IF \A i \in 1..Len(str) : str[i] # sep
    THEN << IF str = <<>> THEN "" ELSE str[1] >>
    ELSE LET i == CHOOSE k \in 1..Len(str) :
                    str[k] = sep /\ \A j \in 1..(k - 1) : str[j] # sep
         IN  << IF i = 1 THEN "" ELSE str[1] >>
                 \o split(SubSeq(str, i + 1, Len(str)), sep)

\* required_scopes of _validateSuppliedScopes.
client_scopes == split(client_scopes_string, " ")

\* The "scopes" arrays a token response may carry (some = FALSE: no field).
NoScopes == [some |-> FALSE, list |-> <<>>]
ScopeLists ==
    { NoScopes,
      [some |-> TRUE, list |-> <<"full_name", "vatsim_details", "email">>],
      [some |-> TRUE, list |-> <<"email", "full_name">>],
      [some |-> TRUE,
       list |-> <<"country", "email", "vatsim_details", "full_name">>] }

AccessTokens == {"tok1"}

\* Words of the "hint" of an error response; a hint is a sequence of words.
Hints ==
    { <<"Authorization", "code", "has", "been", "revoked">>,
      <<"Authorization", "code", "has", "been", "Revoked">>,
      <<"Check", "the", "code", "parameter">> }

\* String.prototype.toLowerCase on the words that occur.
toLowerCase(w) ==
    CASE w = "Revoked"       -> "revoked"
      [] w = "Authorization" -> "authorization"
      [] w = "Check"         -> "check"
      [] w = "TRUE"          -> "true"
      [] OTHER               -> w

\* Mutant of includes: the hint is not lower-cased before the search.
includes_CaseSensitive(hint, word) == \E i \in 1..Len(hint) : hint[i] = word

\* String.prototype.includes for a hint given as its words.
includes(hint, word) == \E i \in 1..Len(hint) : toLowerCase(hint[i]) = word

\* What POST /oauth/token can do.  kind:
\*   "data"        2xx with a payload (access_token may be missing)
\*   "nodata"      2xx whose payload is null
\*   "error_hint"  rejected, e.response.data.hint is a string
\*   "error_plain" rejected, e.response.data has no hint
\*   "no_response" network error or timeout: e.response is undefined
NoHint == <<>>
TokenResponse(kind, at, rt, sc, hint) ==
    [kind |-> kind, access_token |-> at, refresh_token |-> rt,
     scopes |-> sc, hint |-> hint]
TokenOutcomes(code) ==
    LET errors ==
          { TokenResponse("error_hint", NULL, NULL, NoScopes, h) : h \in Hints }
          \cup { TokenResponse(k, NULL, NULL, NoScopes, NoHint) :
                   k \in {"error_plain", "no_response", "nodata"} }
        grants ==
          { TokenResponse("data", at, "ref", sc, NoHint) :
              at \in AccessTokens \cup {NULL}, sc \in ScopeLists }
    IN  IF code = "" THEN errors ELSE errors \cup grants

\* The profile documents GET /api/user may return (data.cid, data.personal,
\* data.vatsim.rating.id, data.oauth.token_valid).  "name" stands for the
\* columns copied from data.personal, "rating" for those from data.vatsim.
NoProfile ==
    [some |-> FALSE, cid |-> 0, personal |-> NULL, rating |-> 0,
     token_valid |-> NULL]
Profiles ==
    { p \in [some : {TRUE}, cid : Cids, personal : {"Max", NULL},
             rating : {0, 2}, token_valid : {"true", "TRUE", "false", NULL}] :
        p.personal # NULL \/ (p.rating = 2 /\ p.token_valid = "true") }

\* ------------------------------------------------------------------- rows
NoUser == [exists |-> FALSE, name |-> NULL, access_token |-> NULL,
           refresh_token |-> NULL]
NoUserData == [exists |-> FALSE, rating_atc |-> 0]
NoSettings == [exists |-> FALSE, language |-> NULL]
NoTx == [open |-> FALSE, user |-> NoUser, data |-> NoUserData]

\* The durable state a login may touch.
Durable == [users |-> users, userData |-> userData,
            userSettings |-> userSettings, sessions |-> sessions]

\* constructor: a fresh library object, all members undefined.  "op" is
\* the handler the object serves ("login" or "refresh"), "user_id" the
\* request.body.user.id of a refresh.  "steps" (the calls made so far) and
\* "reply" (what the token endpoint did) are history.
NewLibrary ==
    [pc |-> "idle", op |-> "none", code |-> NULL, browser |-> NULL,
     user_id |-> 0,
     m_accessToken |-> NULL, m_refreshToken |-> NULL,
     m_suppliedScopes |-> NoScopes, m_userData |-> NoProfile,
     tx |-> NoTx, result |-> "none", steps |-> {},
     reply |-> TokenResponse("none", NULL, NULL, NoScopes, NoHint)]

\* A handler that ends: by a thrown VatsimConnectException (its kind), a
\* TypeError, response.sendStatus(500) or response.send(user).
Finish(o, result) == [o EXCEPT !.pc = "done", !.result = result]
Did(o, step) == [o EXCEPT !.steps = @ \cup {step}]


\* ------------------------------------------------- VatsimConnectLibrary
\* Mutant of indexOf: only the first element is compared.
indexOf_FirstElement(list, x) ==
    IF Len(list) > 0 /\ list[1] = x THEN 0 ELSE -1

\* Array.prototype.indexOf: the first index (from 0) of x, or -1.
indexOf(list, x) ==
    IF \E i \in 1..Len(list) : list[i] = x
    THEN (CHOOSE i \in 1..Len(list) :
            list[i] = x /\ \A j \in 1..(i - 1) : list[j] # x) - 1
    ELSE -1

\* Mutant of _validateSuppliedScopes: only the first required scope is
\* looked up.
_validateSuppliedScopes_FirstOnly(o) ==
    IF ~o.m_suppliedScopes.some THEN "ERR_DEFAULT"
    ELSE IF indexOf(o.m_suppliedScopes.list, client_scopes[1]) = -1
         THEN "ERR_INV_SCOPES"
         ELSE "ok"

\* _validateSuppliedScopes: "ok", or the kind of exception it throws.
_validateSuppliedScopes(o) ==
    IF ~o.m_suppliedScopes.some THEN "ERR_DEFAULT"
    ELSE IF \E i \in 1..Len(client_scopes) :
                indexOf(o.m_suppliedScopes.list, client_scopes[i]) = -1
         THEN "ERR_INV_SCOPES"
         ELSE "ok"

\* checkIsUserBanned (MembershipHelper): is there an active ban for cid.
checkIsUserBanned(cid) == cid \in banned

\* Mutant of _checkIsUserSuspended: the rating is not looked at.
_checkIsUserSuspended_BanOnly(o) == checkIsUserBanned(o.m_userData.cid)

\* _checkIsUserSuspended: TRUE when it throws ERR_SUSPENDED.
_checkIsUserSuspended(o) ==
    checkIsUserBanned(o.m_userData.cid) \/ o.m_userData.rating = 0

\* _validateUserData().invalid: cid, personal and vatsim must be non-null.
_validateUserData(o) == o.m_userData.personal = NULL

\* Mutant of tokenValid: anything but an explicit "false" counts as valid.
tokenValid_UnlessFalse(o) ==
    o.m_userData.token_valid = NULL
    \/ toLowerCase(o.m_userData.token_valid) # "false"

\* tokenValid of _updateDatabase.
tokenValid(o) ==
    o.m_userData.token_valid # NULL
    /\ toLowerCase(o.m_userData.token_valid) = "true"

\* The row User.upsert writes.
UserRow(o) ==
    [exists |-> TRUE, name |-> o.m_userData.personal,
     access_token  |-> IF tokenValid(o) THEN o.m_accessToken ELSE NULL,
     refresh_token |-> IF tokenValid(o) THEN o.m_refreshToken ELSE NULL]

\* The row UserData.upsert writes.
UserDataRow(o) == [exists |-> TRUE, rating_atc |-> o.m_userData.rating]

\* The defaults of UserSettings.findOrCreate.
DefaultSettings == [exists |-> TRUE, language |-> "de"]

\* login, up to its first await: the code check, m_request, m_response.
\* A request is served by a library object of its own; "pre" keeps the
\* durable state the request found.
login(a, code, browser) ==
    /\ att[a].pc = "idle"
    /\ LET o == [NewLibrary EXCEPT !.op = "login", !.code = code,
                                   !.browser = browser]
       IN  att' = [att EXCEPT ![a] =
                     IF code = NULL THEN Finish(o, "ERR_NO_CODE")
                     ELSE [o EXCEPT !.pc = "tokens"]]
    /\ pre' = Durable
    /\ UNCHANGED <<users, userData, userSettings, sessions, banned>>
    /\ UNCHANGED soloVars

\* _queryAccessTokens: the token exchange and what login does with it.
_queryAccessTokens(a, r) ==
    /\ att[a].pc = "tokens"
    /\ r \in TokenOutcomes(att[a].code)
    /\ LET o == [Did(att[a], "exchange") EXCEPT !.reply = r]
       IN  att' = [att EXCEPT ![a] =
             CASE r.kind = "no_response" -> Finish(o, "TypeError")
               [] r.kind = "error_plain" -> Finish(o, "TypeError")
               [] r.kind = "error_hint" ->
                    IF includes(r.hint, "revoked")
                    THEN Finish(o, "ERR_INV_CODE")
                    ELSE Finish(o, "ERR_INV_SCOPES")
               [] r.kind = "nodata" -> Finish(o, "ERR_INV_SCOPES")
               [] OTHER ->
                    [Did(o, "exchanged") EXCEPT
                              !.m_accessToken = r.access_token,
                              !.m_refreshToken = r.refresh_token,
                              !.m_suppliedScopes = r.scopes,
                              !.pc = "userdata"]]
    /\ UNCHANGED <<users, userData, userSettings, sessions, banned, pre>>
    /\ UNCHANGED soloVars

\* Mutant of NoAccessToken: the profile is requested without a token.
NoAccessToken_Unchecked(o) == FALSE

\* _queryUserData: this.m_accessToken == null, the fetch is skipped.
NoAccessToken(o) == o.m_accessToken = NULL

\* Mutant of ProfileAbsent: login goes on without a profile.
ProfileAbsent_Ignored(o) == FALSE

\* login: this.m_userData == null after _queryUserData.
ProfileAbsent(o) == ~o.m_userData.some

\* _queryUserData, then login up to the await in _checkIsUserSuspended:
\* the absent-profile exit and _validateSuppliedScopes.
_queryUserData(a, p) ==
    /\ att[a].pc = "userdata"
    /\ LET o0 == att[a]
           o  == IF NoAccessToken(o0) THEN o0
                 ELSE [Did(o0, "profile_fetch") EXCEPT !.m_userData = p]
           sc == _validateSuppliedScopes(o)
       IN  att' = [att EXCEPT ![a] =
             IF ProfileAbsent(o) THEN Finish(o, "HTTP500")
             ELSE IF sc # "ok" THEN Finish(Did(o, "scope_check"), sc)
             ELSE [Did(o, "scope_check") EXCEPT !.pc = "suspended"]]
    /\ UNCHANGED <<users, userData, userSettings, sessions, banned, pre>>
    /\ UNCHANGED soloVars

\* The ban lookup returns; on no suspension _updateDatabase starts: it
\* validates the profile and asks for a transaction.
CheckSuspended(a) ==
    /\ att[a].pc = "suspended"
    /\ LET o == Did(att[a], "ban_lookup")
       IN  att' = [att EXCEPT ![a] =
             IF _checkIsUserSuspended(o) THEN Finish(o, "ERR_SUSPENDED")
             ELSE IF _validateUserData(o) THEN Finish(o, "ERR_DEFAULT")
             ELSE [o EXCEPT !.pc = "tx_begin"]]
    /\ UNCHANGED <<users, userData, userSettings, sessions, banned, pre>>
    /\ UNCHANGED soloVars

\* _updateDatabase: sequelize.transaction() returns the transaction, or
\* rejects; the call is outside the try, so a rejection ends the handler
\* with a plain Error.
BeginTransaction(a, ok) ==
    /\ att[a].pc = "tx_begin"
    /\ att' = [att EXCEPT ![a] =
                 IF ok THEN [@ EXCEPT !.pc = "tx_user", !.tx.open = TRUE]
                 ELSE Finish(@, "Error")]
    /\ UNCHANGED <<users, userData, userSettings, sessions, banned, pre>>
    /\ UNCHANGED soloVars

\* Where the caller of _updateDatabase goes on when it returns: login
\* with UserSettings.findOrCreate, updateUserData with User.findOne.
AfterUpdateDatabase(o) == IF o.op = "refresh" THEN "r_finduser" ELSE "settings"

\* The catch of _updateDatabase: a statement of the try has thrown, and
\* t.rollback() is called.
Catch(o) == [o EXCEPT !.pc = "rollback"]

\* t.rollback() returns: the transaction's writes are dropped, the error is
\* swallowed and the caller goes on; or t.rollback() rejects, and the
\* handler ends with a plain Error.  Nothing of the transaction is durable
\* either way.
Rollback(a, ok) ==
    /\ att[a].pc = "rollback"
    /\ LET o == [Did(att[a], "rollback") EXCEPT !.tx = NoTx]
       IN  att' = [att EXCEPT ![a] =
                     IF ok THEN [o EXCEPT !.pc = AfterUpdateDatabase(o)]
                     ELSE Finish(o, "Error")]
    /\ UNCHANGED <<users, userData, userSettings, sessions, banned, pre>>
    /\ UNCHANGED soloVars

\* Mutant of UpsertUser: the statement is not given the transaction, so
\* its row is durable at once.
UpsertUser_NoTransaction(a, ok) ==
    /\ att[a].pc = "tx_user"
    /\ LET o == Did(att[a], "upsert_user")
       IN  /\ att' = [att EXCEPT ![a] =
                 IF ok THEN [o EXCEPT !.tx.user = UserRow(o), !.pc = "tx_data"]
                 ELSE Catch(o)]
           /\ users' = IF ok THEN [users EXCEPT ![o.m_userData.cid] = UserRow(o)]
                       ELSE users
    /\ UNCHANGED <<userData, userSettings, sessions, banned, pre>>
    /\ UNCHANGED soloVars

\* User.upsert inside the transaction (ok = FALSE: the statement fails).
UpsertUser(a, ok) ==
    /\ att[a].pc = "tx_user"
    /\ LET o == Did(att[a], "upsert_user")
       IN  att' = [att EXCEPT ![a] =
             IF ok THEN [o EXCEPT !.tx.user = UserRow(o), !.pc = "tx_data"]
             ELSE Catch(o)]
    /\ UNCHANGED <<users, userData, userSettings, sessions, banned, pre>>
    /\ UNCHANGED soloVars

\* UserData.upsert inside the transaction.
UpsertUserData(a, ok) ==
    /\ att[a].pc = "tx_data"
    /\ LET o == Did(att[a], "upsert_data")
       IN  att' = [att EXCEPT ![a] =
             IF ok THEN [o EXCEPT !.tx.data = UserDataRow(o),
                                  !.pc = "tx_commit"]
             ELSE Catch(o)]
    /\ UNCHANGED <<users, userData, userSettings, sessions, banned, pre>>
    /\ UNCHANGED soloVars

\* t.commit(): both rows become durable together, or none does.
Commit(a, ok) ==
    /\ att[a].pc = "tx_commit"
    /\ LET o == att[a]
           cid == o.m_userData.cid
       IN  IF ok
           THEN /\ users' = [users EXCEPT ![cid] = o.tx.user]
                /\ userData' = [userData EXCEPT ![cid] = o.tx.data]
                /\ att' = [att EXCEPT ![a] =
                             [Did(o, "commit") EXCEPT
                                    !.tx = NoTx,
                                    !.pc = AfterUpdateDatabase(o)]]
           ELSE /\ att' = [att EXCEPT ![a] = Catch(o)]
                /\ UNCHANGED <<users, userData>>
    /\ UNCHANGED <<userSettings, sessions, banned, pre>>
    /\ UNCHANGED soloVars

\* Mutant of findOrCreate: the defaults are written over an existing row.
findOrCreate_Overwrite(rows, cid, defaults) == [rows EXCEPT ![cid] = defaults]

\* UserSettings.findOrCreate({where: {user_id: cid}, defaults}): the row
\* of the user is left as it is, or created from the defaults.
findOrCreate(rows, cid, defaults) ==
    IF rows[cid].exists THEN rows ELSE [rows EXCEPT ![cid] = defaults]

\* UserSettings.findOrCreate of login.
FindOrCreateSettings(a) ==
    /\ att[a].pc = "settings"
    /\ userSettings' = findOrCreate(userSettings, att[a].m_userData.cid,
                                    DefaultSettings)
    /\ att' = [att EXCEPT ![a] = [Did(@, "settings") EXCEPT !.pc = "finduser"]]
    /\ UNCHANGED <<users, userData, sessions, banned, pre>>
    /\ UNCHANGED soloVars

\* Mutant of NoBrowserUUID: the header is not looked at.
NoBrowserUUID_Unchecked(o) == FALSE

\* _handleSessionChange: browserUUID == null (m_request, m_response and
\* the cid are set whenever login gets here).
NoBrowserUUID(o) == o.browser = NULL

\* User.findOne of login, then _handleSessionChange up to its first await.
FindUser(a) ==
    /\ att[a].pc = "finduser"
    /\ att' = [att EXCEPT ![a] =
                 IF NoBrowserUUID(@) THEN Finish(@, "ERR_DEFAULT")
                 ELSE [@ EXCEPT !.pc = "destroy"]]
    /\ UNCHANGED <<users, userData, userSettings, sessions, banned, pre>>
    /\ UNCHANGED soloVars

\* Mutant of destroy: the old rows stay.
destroy_Keep(rows, cid, browser) == rows

\* The rows UserSession.destroy leaves: none for (user_id, browser_uuid).
destroy(rows, cid, browser) == [rows EXCEPT ![<<cid, browser>>] = 0]

\* _handleSessionChange: "Remove old session".
DestroySession(a) ==
    /\ att[a].pc = "destroy"
    /\ sessions' = destroy(sessions, att[a].m_userData.cid, att[a].browser)
    /\ att' = [att EXCEPT ![a] = [Did(@, "destroy") EXCEPT !.pc = "create"]]
    /\ UNCHANGED <<users, userData, userSettings, banned, pre>>
    /\ UNCHANGED soloVars

\* createSessionToken (SessionLibrary): one new row for the user and the
\* request's browser, and TRUE; or no row, and FALSE.
createSessionToken(rows, cid, browser, ok) ==
    IF ok THEN [rows EXCEPT ![<<cid, browser>>] = @ + 1] ELSE rows

\* _handleSessionChange: "Create new session", and the end of login.
CreateSession(a, ok) ==
    /\ att[a].pc = "create"
    /\ sessions' = createSessionToken(sessions, att[a].m_userData.cid,
                                      att[a].browser, ok)
    /\ att' = [att EXCEPT ![a] =
                 IF ok THEN Finish(Did(@, "create"), "SENT_USER")
                 ELSE Finish(@, "ERR_UNABLE_CREATE_SESSION")]
    /\ UNCHANGED <<users, userData, userSettings, banned, pre>>
    /\ UNCHANGED soloVars

\* The languages a caller of updateSettings may choose.
Languages == {"de", "en"}

\* updateSettings (settings controller): UserSettings.update of the
\* caller's row; no row, no change.  It is a handler of its own and runs
\* at any time, also between the steps of a login.  (pre is the record of
\* the tables a running login started from; with no login running it
\* follows the tables.)
updateSettings(uid, language) ==
    /\ userSettings' =
          IF userSettings[uid].exists
          THEN [userSettings EXCEPT ![uid].language = language]
          ELSE userSettings
    /\ pre' = IF \A a \in Attempts : att[a].pc = "idle"
              THEN [Durable EXCEPT !.userSettings = userSettings']
              ELSE pre
    /\ UNCHANGED <<users, userData, sessions, banned, att>>
    /\ UNCHANGED soloVars

\* updateUserData, up to its first await (User.findOne of the caller).
updateUserData(a, uid) ==
    /\ att[a].pc = "idle"
    /\ att' = [att EXCEPT ![a] =
                 [NewLibrary EXCEPT !.op = "refresh", !.user_id = uid,
                                    !.pc = "r_find"]]
    /\ pre' = Durable
    /\ UNCHANGED <<users, userData, userSettings, sessions, banned>>
    /\ UNCHANGED soloVars

\* updateUserData: User.findOne returns; the tokens on file are taken.
RefreshFindUser(a) ==
    /\ att[a].pc = "r_find"
    /\ LET o == Did(att[a], "find_caller")
           userWithAccessToken == users[o.user_id]
       IN  att' = [att EXCEPT ![a] =
             IF ~userWithAccessToken.exists THEN Finish(o, "HTTP500")
             ELSE [o EXCEPT
                     !.m_accessToken = userWithAccessToken.access_token,
                     !.m_refreshToken = userWithAccessToken.refresh_token,
                     !.pc = "r_userdata"]]
    /\ UNCHANGED <<users, userData, userSettings, sessions, banned, pre>>
    /\ UNCHANGED soloVars

\* updateUserData: _queryUserData, the no-data exit, and _updateDatabase
\* up to its request for a transaction.
RefreshQueryUserData(a, p) ==
    /\ att[a].pc = "r_userdata"
    /\ LET o0 == att[a]
           fetched == ~NoAccessToken(o0)
           o  == IF fetched
                 THEN [Did(o0, "profile_fetch") EXCEPT !.m_userData = p]
                 ELSE o0
           newUserData == IF fetched THEN p ELSE NoProfile
       IN  att' = [att EXCEPT ![a] =
             IF ~newUserData.some THEN Finish(o, "HTTP500")
             ELSE IF _validateUserData(o) THEN Finish(o, "ERR_DEFAULT")
             ELSE [o EXCEPT !.pc = "tx_begin"]]
    /\ UNCHANGED <<users, userData, userSettings, sessions, banned, pre>>
    /\ UNCHANGED soloVars

\* updateUserData: User.findOne of the refreshed user, and the response.
RefreshSend(a) ==
    /\ att[a].pc = "r_finduser"
    /\ LET o == Did(att[a], "find_new")
           newUser == users[o.m_userData.cid]
       IN  att' = [att EXCEPT ![a] =
             IF ~newUser.exists THEN Finish(o, "HTTP500")
             ELSE Finish(o, "SENT_USER")]
    /\ UNCHANGED <<users, userData, userSettings, sessions, banned, pre>>
    /\ UNCHANGED soloVars


\* ----------------------------------------------------- VateudCoreLibrary
\* Identifiers the sync target hands out for the solos it creates.
RemoteIds == {"r-9", "r-10"}

\* VateudCoreSoloCreateT: what a caller passes to createSolo.
PostData == { [user_id |-> 1, position |-> "EDDF_TWR", instructor_cid |-> 2,
               expires_at |-> "2024-05-01"] }
CreateInputs == { [local_solo_id |-> id, post_data |-> pd] :
                    id \in SoloIds, pd \in PostData }

\* VateudCoreSoloRemoveT: what a caller passes to removeSolo.
RemoveInputs == { [local_solo_id |-> id, vateud_solo_id |-> rid] :
                    id \in SoloIds, rid \in RemoteIds }

\* What the HTTP call of _send can do when it completes.  kind: "nocall"
\* (no request was made), "neterr" (no answer), "non2xx", "ok" (2xx: the
\* body may be empty; the body of a create answer carries data.id).
NoReply == [kind |-> "nocall", empty |-> TRUE, id |-> NULL]
Reply(kind, empty, id) == [kind |-> kind, empty |-> empty, id |-> id]
Replies(op) ==
    CASE target = "down"  -> {Reply("neterr", TRUE, NULL)}
      [] target = "error" -> {Reply("non2xx", FALSE, NULL)}
      [] OTHER ->
           {Reply("ok", TRUE, NULL)} \cup
           (IF op = "createSolo"
            THEN {Reply("ok", FALSE, rid) : rid \in RemoteIds}
            ELSE {Reply("ok", FALSE, NULL)})

\* The values _send returns: undefined, or res.data ("" for an empty body).
Undefined == [defined |-> FALSE, empty |-> TRUE, id |-> NULL]
Falsy(res) == ~res.defined \/ res.empty

\* Mutant of _send: the response body is not returned.
_send_NoReturn(r) == Undefined

\* _send: undefined without an API key or when axios throws, else res.data.
_send(r) ==
    IF apiKey = NULL THEN Undefined
    ELSE IF r.kind = "ok"
         THEN [defined |-> TRUE, empty |-> r.empty, id |-> r.id]
         ELSE Undefined

\* JobLibrary.scheduleJob: one more pending job, with this payload.
scheduleJob(js, payload) == Append(js, payload)

\* Mutant of CreateJob: the expiry is left out of the payload.
CreateJob_NoExpiry(soloInfo) ==
    [type |-> "SOLO_CREATE", method |-> "post",
     data |-> [solo_create |->
        [local_solo_id  |-> soloInfo.local_solo_id,
         user_id        |-> soloInfo.post_data.user_id,
         position       |-> soloInfo.post_data.position,
         instructor_cid |-> soloInfo.post_data.instructor_cid,
         expire_at      |-> NULL]]]

\* The payload createSolo schedules.
CreateJob(soloInfo) ==
    [type |-> "SOLO_CREATE", method |-> "post",
     data |-> [solo_create |->
        [local_solo_id  |-> soloInfo.local_solo_id,
         user_id        |-> soloInfo.post_data.user_id,
         position       |-> soloInfo.post_data.position,
         instructor_cid |-> soloInfo.post_data.instructor_cid,
         expire_at      |-> soloInfo.post_data.expires_at]]]

\* Mutant of RemoveJob: the remote identifier is left out of the payload.
RemoveJob_NoRemoteId(soloInfo) ==
    [type |-> "SOLO_REMOVE", method |-> "delete",
     data |-> [solo_remove |->
        [local_solo_id  |-> soloInfo.local_solo_id,
         vateud_solo_id |-> NULL]]]

\* The payload removeSolo schedules.
RemoveJob(soloInfo) ==
    [type |-> "SOLO_REMOVE", method |-> "delete",
     data |-> [solo_remove |->
        [local_solo_id  |-> soloInfo.local_solo_id,
         vateud_solo_id |-> soloInfo.vateud_solo_id]]]

\* Mutant of UserSoloUpdate: the where clause is missing.
UserSoloUpdate_NoWhere(rows, id, rid) ==
    [i \in DOMAIN rows |->
        IF rows[i].exists
        THEN [rows[i] EXCEPT !.vateud_solo_id = rid] ELSE rows[i]]

\* UserSolo.update({vateud_solo_id}, {where: {id}}).
UserSoloUpdate(rows, id, rid) ==
    [i \in DOMAIN rows |->
        IF i = id /\ rows[i].exists
        THEN [rows[i] EXCEPT !.vateud_solo_id = rid] ELSE rows[i]]

\* A call of createSolo or removeSolo.  pc is where the call waits:
\* "axios" for the HTTP answer, "schedule" for JobLibrary.scheduleJob,
\* "update" for UserSolo.update, "done" when it has returned.  via is
\* "inline" for a request and "tick" for a replay by the scheduler.  reply,
\* res and ret are what axios did, what _send returned and what the call
\* returned; soloBefore and jobsBefore are the tables the call started
\* from (record keeping).
NoCall == [pc |-> "idle", op |-> "none", via |-> "none", input |-> NULL,
           reply |-> NoReply, res |-> Undefined, ret |-> Undefined,
           soloBefore |-> <<>>, jobsBefore |-> <<>>]

\* Mutant of AfterSend: a failed request is not scheduled again.
AfterSend_NoRetry(o, r) ==
    LET res == _send(r)
    IN  [o EXCEPT !.reply = r, !.res = res,
                  !.pc = IF Falsy(res) THEN "done"
                         ELSE IF o.op = "createSolo" THEN "update"
                         ELSE "done"]

\* _send has returned res: on !res the call goes to scheduleJob; else
\* createSolo goes to UserSolo.update and removeSolo returns.
AfterSend(o, r) ==
    LET res == _send(r)
    IN  [o EXCEPT !.reply = r, !.res = res,
                  !.pc = IF Falsy(res) THEN "schedule"
                         ELSE IF o.op = "createSolo" THEN "update"
                         ELSE "done"]

\* The call up to its first return to the event loop: without an API key
\* _send returns at once, else it waits for axios.
Enter(op, via, input) ==
    LET o == [NoCall EXCEPT !.op = op, !.via = via, !.input = input,
                            !.soloBefore = userSolo, !.jobsBefore = jobs]
    IN  IF apiKey = NULL THEN AfterSend(o, NoReply)
        ELSE [o EXCEPT !.pc = "axios"]

\* An administrative request creates a solo: createSolo up to the await
\* of axios.
createSolo(c, soloInfo) ==
    /\ calls[c].pc = "idle"
    /\ calls' = [calls EXCEPT ![c] = Enter("createSolo", "inline", soloInfo)]
    /\ UNCHANGED <<userSolo, jobs, apiKey, target>>
    /\ UNCHANGED loginVars

\* An administrative request removes a solo: removeSolo up to the await
\* of axios.
removeSolo(c, soloInfo) ==
    /\ calls[c].pc = "idle"
    /\ calls' = [calls EXCEPT ![c] = Enter("removeSolo", "inline", soloInfo)]
    /\ UNCHANGED <<userSolo, jobs, apiKey, target>>
    /\ UNCHANGED loginVars

\* axios answers, or throws: _send returns to its caller.
SendReturns(c, r) ==
    /\ calls[c].pc = "axios"
    /\ calls' = [calls EXCEPT ![c] = AfterSend(@, r)]
    /\ UNCHANGED <<userSolo, jobs, apiKey, target>>
    /\ UNCHANGED loginVars

\* JobLibrary.scheduleJob returns: the job is pending, the call returns
\* undefined.
ScheduleJob(c) ==
    /\ calls[c].pc = "schedule"
    /\ jobs' = scheduleJob(jobs, IF calls[c].op = "createSolo"
                                 THEN CreateJob(calls[c].input)
                                 ELSE RemoveJob(calls[c].input))
    /\ calls' = [calls EXCEPT ![c].pc = "done", ![c].ret = Undefined]
    /\ UNCHANGED <<userSolo, apiKey, target>>
    /\ UNCHANGED loginVars

\* createSolo: UserSolo.update returns, and the call returns the response.
UpdateUserSolo(c) ==
    /\ calls[c].pc = "update"
    /\ userSolo' = UserSoloUpdate(userSolo, calls[c].input.local_solo_id,
                                  calls[c].res.id)
    /\ calls' = [calls EXCEPT ![c].pc = "done", ![c].ret = calls[c].res]
    /\ UNCHANGED <<jobs, apiKey, target>>
    /\ UNCHANGED loginVars

\* The caller has its answer.
Return(c) ==
    /\ calls[c].pc = "done"
    /\ calls' = [calls EXCEPT ![c] = NoCall]
    /\ UNCHANGED <<userSolo, jobs, apiKey, target>>
    /\ UNCHANGED loginVars

\* The scheduler's handler rebuilds the call's input from a payload.
ReplayCreateInput(job) ==
    LET d == job.data.solo_create
    IN  [local_solo_id |-> d.local_solo_id,
         post_data |-> [user_id |-> d.user_id, position |-> d.position,
                        instructor_cid |-> d.instructor_cid,
                        expires_at |-> d.expire_at]]
ReplayRemoveInput(job) ==
    LET d == job.data.solo_remove
    IN  [local_solo_id |-> d.local_solo_id,
         vateud_solo_id |-> d.vateud_solo_id]

\* A scheduler tick takes the oldest pending job, consumes it and replays
\* the call it describes; a replay that fails schedules an equal job again.
TickCreate(c) ==
    /\ calls[c].pc = "idle"
    /\ jobs # <<>>
    /\ Head(jobs).type = "SOLO_CREATE"
    /\ jobs' = Tail(jobs)
    /\ calls' = [calls EXCEPT ![c] =
                   Enter("createSolo", "tick", ReplayCreateInput(Head(jobs)))]
    /\ UNCHANGED <<userSolo, apiKey, target>>
    /\ UNCHANGED loginVars

TickRemove(c) ==
    /\ calls[c].pc = "idle"
    /\ jobs # <<>>
    /\ Head(jobs).type = "SOLO_REMOVE"
    /\ jobs' = Tail(jobs)
    /\ calls' = [calls EXCEPT ![c] =
                   Enter("removeSolo", "tick", ReplayRemoveInput(Head(jobs)))]
    /\ UNCHANGED <<userSolo, apiKey, target>>
    /\ UNCHANGED loginVars

Tick(c) == TickCreate(c) \/ TickRemove(c)

\* The sync target goes down, starts to answer with errors, or comes up.
SetTarget(t) ==
    /\ target # t
    /\ target' = t
    /\ UNCHANGED <<userSolo, jobs, apiKey, calls>>
    /\ UNCHANGED loginVars


\* The request is over: its library object is dropped, and the next
\* request gets a new one.
Dispose(a) ==
    /\ att[a].pc = "done"
    /\ att' = [att EXCEPT ![a] = NewLibrary]
    /\ pre' = Durable
    /\ UNCHANGED <<users, userData, userSettings, sessions, banned>>
    /\ UNCHANGED soloVars

\* ------------------------------------------------------ initial states
\* Empty tables, no request in progress; the last user may be banned.
InitLogin ==
    /\ users = [c \in Cids |-> NoUser]
    /\ userData = [c \in Cids |-> NoUserData]
    /\ userSettings = [c \in Cids |-> NoSettings]
    /\ sessions = [k \in Cids \X Browsers |-> 0]
    /\ banned \in {{}, {MaxCid}}
    /\ att = [a \in Attempts |-> NewLibrary]
    /\ pre = Durable

\* Solos that are not synchronized yet, no pending job; the API key is
\* configured or not, the sync target is in any condition.
InitSolo ==
    /\ userSolo = [id \in SoloIds |-> [exists |-> TRUE, vateud_solo_id |-> NULL]]
    /\ jobs = <<>>
    /\ apiKey \in {NULL, "key"}
    /\ target \in {"down", "error", "up"}
    /\ calls = [c \in Calls |-> NoCall]

Init == InitLogin /\ InitSolo

\* ---------------------------------------------------- next-state relations
\* No other request is being served.
Alone(a) == \A b \in Attempts \ {a} : att[b].pc = "idle"

\* A step of a login in progress, the provider answering from the given
\* token responses and profile documents.
LoginStepOn(a, tokenResponses, profiles) ==
    \/ \E r \in tokenResponses : _queryAccessTokens(a, r)
    \/ \E p \in profiles : _queryUserData(a, p)
    \/ CheckSuspended(a)
    \/ \E ok \in BOOLEAN : BeginTransaction(a, ok)
    \/ \E ok \in BOOLEAN : Rollback(a, ok)
    \/ \E ok \in BOOLEAN : UpsertUser(a, ok)
    \/ \E ok \in BOOLEAN : UpsertUserData(a, ok)
    \/ \E ok \in BOOLEAN : Commit(a, ok)
    \/ FindOrCreateSettings(a)
    \/ FindUser(a)
    \/ DestroySession(a)
    \/ \E ok \in BOOLEAN : CreateSession(a, ok)
    \/ Dispose(a)

\* A step of a refresh in progress; its reconciliation is made of the
\* _updateDatabase steps of LoginStepOn.
RefreshStepOn(a, profiles) ==
    \/ RefreshFindUser(a)
    \/ \E p \in profiles : RefreshQueryUserData(a, p)
    \/ RefreshSend(a)

\* A new request gets the first library object that is free.
FirstIdle(a) == \A b \in Attempts : b < a => att[b].pc # "idle"

\* A request arrives while no other is being served.
SerialLogin(a, code, browser) ==
    Alone(a) /\ FirstIdle(a) /\ login(a, code, browser)
SerialRefresh(a, uid) ==
    Alone(a) /\ FirstIdle(a) /\ updateUserData(a, uid)

\* Logins served one after another, whatever the caller and the provider do.
NextLoginSeq ==
    \E a \in Attempts :
        \/ \E code \in Codes, browser \in Browsers \cup {NULL} :
              SerialLogin(a, code, browser)
        \/ LoginStepOn(a, TokenOutcomes("abc123"), Profiles \cup {NoProfile})

\* The answers of a provider that accepts the code and grants every scope
\* to a user in good standing.
GoodTokenResponses ==
    { r \in TokenOutcomes("abc123") :
        /\ r.kind = "data" /\ r.access_token # NULL
        /\ r.scopes.some /\ Len(r.scopes.list) = Len(client_scopes) }
GoodProfiles ==
    { p \in Profiles : p.personal # NULL /\ p.rating # 0
                        /\ p.token_valid = "true" }

\* Logins and refreshes served one after another: the provider grants the
\* tokens and answers the profile calls in every way, the database fails
\* at any statement.
NextRefreshSeq ==
    \E a \in Attempts :
        \/ \E browser \in Browsers : SerialLogin(a, "abc123", browser)
        \/ LoginStepOn(a, GoodTokenResponses, Profiles \cup {NoProfile})
        \/ \E uid \in Cids : SerialRefresh(a, uid)
        \/ RefreshStepOn(a, Profiles \cup {NoProfile})

\* The provider answers the token of a refresh with a profile of the user
\* the refresh is for (the token on file was issued to that user).
AnswersCaller(a, p) == p.some => p.cid = att[a].user_id

\* The same, with a provider that never answers a refresh with the
\* profile of another user.
NextRefreshOwn ==
    \E a \in Attempts :
        \/ \E browser \in Browsers : SerialLogin(a, "abc123", browser)
        \/ LoginStepOn(a, GoodTokenResponses, Profiles \cup {NoProfile})
        \/ \E uid \in Cids : SerialRefresh(a, uid)
        \/ RefreshFindUser(a)
        \/ \E p \in Profiles \cup {NoProfile} :
              AnswersCaller(a, p) /\ RefreshQueryUserData(a, p)
        \/ RefreshSend(a)

\* Logins of users in good standing, served one after another, and the
\* users changing their settings at any time.
NextSettingsSeq ==
    \E a \in Attempts :
        \/ \E browser \in Browsers : SerialLogin(a, "abc123", browser)
        \/ LoginStepOn(a, GoodTokenResponses, GoodProfiles)
        \/ \E uid \in Cids, language \in Languages :
              updateSettings(uid, language)

\* Requests served at any time, interleaved at their awaits.
NextLogin ==
    \E a \in Attempts :
        \/ \E code \in Codes, browser \in Browsers \cup {NULL} :
              login(a, code, browser)
        \/ LoginStepOn(a, TokenOutcomes("abc123"), Profiles \cup {NoProfile})
        \/ \E uid \in Cids : updateUserData(a, uid)
        \/ RefreshStepOn(a, Profiles \cup {NoProfile})
        \/ \E uid \in Cids, language \in Languages :
              updateSettings(uid, language)

\* Logins of users in good standing, interleaved at their awaits.
NextLoginRace ==
    \E a \in Attempts :
        \/ \E browser \in Browsers : login(a, "abc123", browser)
        \/ LoginStepOn(a, GoodTokenResponses, GoodProfiles)

\* No other call is in progress.
AloneCall(c) == \A d \in Calls \ {c} : calls[d].pc = "idle"

\* A new call is kept in the first record that is free.
FirstFree(c) == \A d \in Calls : d < c => calls[d].pc # "idle"

\* The requests that are made: one more is made only while the jobs
\* pending and the jobs the requests in progress may schedule are fewer
\* than MaxJobs.
Arrives ==
    Len(jobs) + Cardinality({c \in Calls : /\ calls[c].via = "inline"
                                           /\ calls[c].pc # "done"}) < MaxJobs

\* A step of a call in progress, the sync target answering as it stands.
SoloStepOn(c) ==
    \/ \E r \in Replies(calls[c].op) : SendReturns(c, r)
    \/ ScheduleJob(c)
    \/ UpdateUserSolo(c)
    \/ Return(c)

\* A request or a tick starts while no other call is in progress.
SerialCreateSolo(c, soloInfo) ==
    AloneCall(c) /\ FirstFree(c) /\ Arrives /\ createSolo(c, soloInfo)
SerialRemoveSolo(c, soloInfo) ==
    AloneCall(c) /\ FirstFree(c) /\ Arrives /\ removeSolo(c, soloInfo)
SerialTick(c) == AloneCall(c) /\ FirstFree(c) /\ Tick(c)

\* Solo requests and scheduler ticks served one after another, and the
\* sync target's changes at any time.
NextSoloSeq ==
    \/ \E c \in Calls :
          \/ \E i \in CreateInputs : SerialCreateSolo(c, i)
          \/ \E i \in RemoveInputs : SerialRemoveSolo(c, i)
          \/ SerialTick(c)
          \/ SoloStepOn(c)
    \/ \E t \in {"down", "error", "up"} : SetTarget(t)

\* Solo requests, scheduler ticks and the sync target's changes,
\* interleaved at their awaits.
NextSolo ==
    \/ \E c \in Calls :
          \/ \E i \in CreateInputs :
                FirstFree(c) /\ Arrives /\ createSolo(c, i)
          \/ \E i \in RemoveInputs :
                FirstFree(c) /\ Arrives /\ removeSolo(c, i)
          \/ FirstFree(c) /\ Tick(c)
          \/ SoloStepOn(c)
    \/ \E t \in {"down", "error", "up"} : SetTarget(t)

Next == NextLogin \/ NextSolo

\* The whole backend.
Spec == Init /\ [][Next]_vars

\* The login flow alone, one request at a time.
SoloQuiet ==
    /\ userSolo = [id \in SoloIds |-> [exists |-> TRUE, vateud_solo_id |-> NULL]]
    /\ jobs = <<>> /\ apiKey = "key" /\ target = "up"
    /\ calls = [c \in Calls |-> NoCall]
InitLoginSeq == InitLogin /\ SoloQuiet
SpecLoginSeq == InitLoginSeq /\ [][NextLoginSeq]_vars

\* Logins and refreshes, one request at a time.
InitRefreshSeq == InitLogin /\ banned = {} /\ SoloQuiet
SpecRefreshSeq == InitRefreshSeq /\ [][NextRefreshSeq]_vars

\* Logins and refreshes, one request at a time, the provider answering
\* every refresh with the caller's own profile.
InitRefreshOwn == InitLogin /\ banned = {} /\ SoloQuiet
SpecRefreshOwn == InitRefreshOwn /\ [][NextRefreshOwn]_vars

\* Logins and changes of settings, one request at a time.
InitSettingsSeq == InitLogin /\ banned = {} /\ SoloQuiet
SpecSettingsSeq == InitSettingsSeq /\ [][NextSettingsSeq]_vars

\* The login flow alone, concurrent requests of users in good standing.
InitLoginRace == InitLogin /\ banned = {} /\ SoloQuiet
SpecLoginRace == InitLoginRace /\ [][NextLoginRace]_vars

\* The delivery of solos alone.
InitSoloOnly == InitLogin /\ banned = {} /\ InitSolo
SpecSolo == InitSoloOnly /\ [][NextSoloSeq]_vars

\* The scheduler ticks again and again while a job is pending, and every
\* call in progress takes its next step.
SpecSoloFair ==
    /\ SpecSolo
    /\ SF_vars(\E c \in Calls : SerialTick(c))
    /\ WF_vars(\E c \in Calls : SoloStepOn(c))


\* ================================================================ claims
\* --- helpers of the claims (not part of the program)
Finished(a) == att[a].pc = "done"
CidOf(a) == att[a].m_userData.cid
PairOf(a) == <<att[a].m_userData.cid, att[a].browser>>
Elems(list) == {list[i] : i \in 1..Len(list)}
\* The granted scopes, as a set, contain every required scope.
Covers(granted) == Elems(client_scopes) \subseteq Elems(granted.list)

\* --- C1 -----------------------------------------------------------------
\* C1 (as claimed): a login whose code the provider exchanged for tokens
\* ends either (a) with the user sent, a session row for the caller's
\* browser and the User/UserData pair of the fetched profile durable, or
\* (b) with no session created and the durable state as the login found it.
C1_SessionAndPair(a) ==
    /\ att[a].result = "SENT_USER"
    /\ sessions[PairOf(a)] >= 1
    /\ users[CidOf(a)] = UserRow(att[a])
    /\ userData[CidOf(a)] = UserDataRow(att[a])
C1_NothingHappened(a) ==
    /\ "create" \notin att[a].steps
    /\ Durable = pre
\* C1: every finished login that got past the token exchange is all or
\* nothing: session created and User/UserData pair durable, or no session
\* and durable state unchanged.
C1_AllOrNothing ==
    \A a \in Attempts :
        (Finished(a) /\ "exchanged" \in att[a].steps)
            => (C1_SessionAndPair(a) \/ C1_NothingHappened(a))

\* --- C2 -----------------------------------------------------------------
\* C2: with logins served one after another, the UserSession table never
\* holds more than one row for a (user, browser) pair, and when a login is
\* about to create its row the pair's prior row is already destroyed.
C2_OneSessionPerPair ==
    /\ \A k \in Cids \X Browsers : sessions[k] <= 1
    /\ \A a \in Attempts : att[a].pc = "create" => sessions[PairOf(a)] = 0

\* C2 witness: a finished login replaced the row its pair had before.
C2_Witness ==
    \E a \in Attempts :
        /\ Finished(a) /\ att[a].result = "SENT_USER"
        /\ pre.sessions[PairOf(a)] = 1
        /\ sessions[PairOf(a)] = 1

\* --- C3 -----------------------------------------------------------------
\* C3 (as claimed): once two logins of the same user from the same browser
\* have both finished with a session, exactly one session row exists for
\* the pair, however their destroy and create steps interleaved.
C3_OneSessionAfterRace ==
    \A a, b \in Attempts :
        (/\ a # b
         /\ Finished(a) /\ att[a].result = "SENT_USER"
         /\ Finished(b) /\ att[b].result = "SENT_USER"
         /\ PairOf(a) = PairOf(b))
            => sessions[PairOf(a)] = 1

\* --- C4 -----------------------------------------------------------------
\* C4: a login whose token response grants a scope list that lacks a
\* required scope never looks up the ban, never upserts User or UserData
\* and never changes durable state; once its scopes are validated it has
\* failed with ERR_INV_SCOPES.
C4_InsufficientScopesStopEarly ==
    \A a \in Attempts :
        (att[a].m_suppliedScopes.some /\ ~Covers(att[a].m_suppliedScopes))
            => /\ att[a].steps \cap {"ban_lookup", "upsert_user",
                                     "upsert_data", "commit"} = {}
               /\ Durable = pre
               /\ "scope_check" \in att[a].steps
                    => (Finished(a) /\ att[a].result = "ERR_INV_SCOPES")

\* C4 witness: a profile was fetched and the scope validation then failed
\* the login.
C4_Witness ==
    \E a \in Attempts :
        /\ att[a].m_suppliedScopes.some /\ ~Covers(att[a].m_suppliedScopes)
        /\ att[a].m_userData.some
        /\ "scope_check" \in att[a].steps
        /\ att[a].result = "ERR_INV_SCOPES"

\* --- C5 -----------------------------------------------------------------
\* C5: a login that exchanged its code, fetched the profile and passed the
\* scope validation, for a user who is banned or whose rating id is 0, fails
\* with ERR_SUSPENDED at the suspension check: no upsert, no settings, no
\* session step is ever made and the durable state stays as it was found.
C5_Suspended(a) ==
    /\ att[a].m_userData.some
    /\ "scope_check" \in att[a].steps
    /\ att[a].m_suppliedScopes.some /\ Covers(att[a].m_suppliedScopes)
    /\ (CidOf(a) \in banned \/ att[a].m_userData.rating = 0)
C5_SuspendedRejected ==
    \A a \in Attempts :
        C5_Suspended(a)
            => /\ att[a].pc \in {"suspended", "done"}
               /\ Finished(a) => att[a].result = "ERR_SUSPENDED"
               /\ att[a].steps \cap {"upsert_user", "upsert_data", "commit",
                                     "settings", "destroy", "create"} = {}
               /\ Durable = pre

\* C5 witnesses: a user who is not banned is rejected for the rating 0; a
\* banned user with a regular rating is rejected.
C5_Witness ==
    /\ \E a \in Attempts :
        /\ C5_Suspended(a) /\ Finished(a)
        /\ att[a].result = "ERR_SUSPENDED"
        /\ att[a].m_userData.rating = 0 /\ CidOf(a) \notin banned
        /\ "ban_lookup" \in att[a].steps

\* --- C6 -----------------------------------------------------------------
\* C6: a login whose token exchange is rejected with a hint that says the
\* code was revoked fails with ERR_INV_CODE, and User, UserData, settings
\* and sessions are as the login found them.
RevokedHints ==
    { <<"Authorization", "code", "has", "been", "revoked">>,
      <<"Authorization", "code", "has", "been", "Revoked">> }
C6_RevokedCode ==
    \A a \in Attempts :
        (att[a].reply.kind = "error_hint" /\ att[a].reply.hint \in RevokedHints)
            => /\ Finished(a)
               /\ att[a].result = "ERR_INV_CODE"
               /\ att[a].steps = {"exchange"}
               /\ Durable = pre

\* C6 witness: a user is on file, holds a session, and a later login with
\* a revoked code has failed.
C6_Witness ==
    \E a \in Attempts :
        /\ att[a].reply.kind = "error_hint"
        /\ att[a].reply.hint = <<"Authorization", "code", "has", "been", "Revoked">>
        /\ att[a].result = "ERR_INV_CODE"
        /\ \E c \in Cids : users[c].exists /\ \E b \in Browsers : sessions[<<c, b>>] = 1


\* --- C7 -----------------------------------------------------------------
\* The HTTP call of _send failed: no API key, a network error or a non-2xx
\* answer.
DeliveryFailed(r) == r.kind \in {"nocall", "neterr", "non2xx"}
\* js is before with one more job at its end.
OneMoreJob(js, before) ==
    /\ Len(js) = Len(before) + 1
    /\ SubSeq(js, 1, Len(before)) = before
\* The call has returned to its caller.
Returned(c) == calls[c].pc = "done"

\* C7: after an inline createSolo whose delivery failed, the queue holds
\* exactly one more job, of type SOLO_CREATE and with the input's
\* local_solo_id; no UserSolo row changed; the call returned undefined.
C7_CreateFailureSchedulesOneJob ==
    \A c \in Calls :
        (/\ Returned(c)
         /\ calls[c].op = "createSolo" /\ calls[c].via = "inline"
         /\ DeliveryFailed(calls[c].reply))
            => /\ OneMoreJob(jobs, calls[c].jobsBefore)
               /\ jobs[Len(jobs)].type = "SOLO_CREATE"
               /\ jobs[Len(jobs)].data.solo_create.local_solo_id
                    = calls[c].input.local_solo_id
               /\ userSolo = calls[c].soloBefore
               /\ ~calls[c].ret.defined

\* C7 witness: an inline createSolo for solo 2 got a non-2xx answer while
\* another job was already pending.
C7_Witness ==
    \E c \in Calls :
        /\ Returned(c)
        /\ calls[c].op = "createSolo" /\ calls[c].via = "inline"
        /\ calls[c].reply.kind = "non2xx"
        /\ calls[c].input.local_solo_id = 2
        /\ Len(calls[c].jobsBefore) = 1
        /\ Len(jobs) = 2

\* --- C8 -----------------------------------------------------------------
\* C8: after an inline removeSolo whose request got no answer (the sync
\* target is unreachable), the queue holds exactly one more job, of type
\* SOLO_REMOVE, whose payload is the input's local_solo_id and
\* vateud_solo_id; the call ended normally.
C8_RemoveUnreachableSchedulesOneJob ==
    \A c \in Calls :
        (/\ Returned(c)
         /\ calls[c].op = "removeSolo" /\ calls[c].via = "inline"
         /\ calls[c].reply.kind = "neterr")
            => /\ OneMoreJob(jobs, calls[c].jobsBefore)
               /\ jobs[Len(jobs)].type = "SOLO_REMOVE"
               /\ jobs[Len(jobs)].data.solo_remove
                    = [local_solo_id |-> calls[c].input.local_solo_id,
                       vateud_solo_id |-> calls[c].input.vateud_solo_id]
               /\ userSolo = calls[c].soloBefore
               /\ ~calls[c].ret.defined

\* C8 witness: removeSolo({local_solo_id: 1, vateud_solo_id: "r-9"}) with the
\* target down left that one job.
C8_Witness ==
    \E c \in Calls :
        /\ Returned(c)
        /\ calls[c].op = "removeSolo" /\ calls[c].via = "inline"
        /\ calls[c].reply.kind = "neterr"
        /\ calls[c].input = [local_solo_id |-> 1, vateud_solo_id |-> "r-9"]
        /\ calls[c].jobsBefore = <<>>
        /\ Len(jobs) = 1

\* --- C9 -----------------------------------------------------------------
\* C9: after a tick replayed a SOLO_CREATE job and the sync target answered
\* 2xx with an identifier, that identifier is the vateud_solo_id of the
\* UserSolo row whose id is the job's local_solo_id, every other row is as
\* before, and the queue is the old queue without the replayed job.
C9_ReplayWritesRemoteId ==
    \A c \in Calls :
        (/\ Returned(c)
         /\ calls[c].op = "createSolo" /\ calls[c].via = "tick"
         /\ calls[c].reply.kind = "ok" /\ ~calls[c].reply.empty)
            => LET job == Head(calls[c].jobsBefore)
                   id == job.data.solo_create.local_solo_id
               IN  /\ job.type = "SOLO_CREATE"
                   /\ userSolo[id].vateud_solo_id = calls[c].reply.id
                   /\ \A i \in SoloIds \ {id} :
                         userSolo[i] = calls[c].soloBefore[i]
                   /\ jobs = Tail(calls[c].jobsBefore)

\* C9 witness: the job for solo 2 was replayed with success while another
\* job stays pending and solo 1 has no remote identifier.
C9_Witness ==
    \E c \in Calls :
        /\ Returned(c)
        /\ calls[c].op = "createSolo" /\ calls[c].via = "tick"
        /\ calls[c].reply.kind = "ok" /\ ~calls[c].reply.empty
        /\ Head(calls[c].jobsBefore).data.solo_create.local_solo_id = 2
        /\ userSolo[2].vateud_solo_id = "r-10"
        /\ userSolo[1].vateud_solo_id = NULL
        /\ Len(jobs) = 1

\* --- C10 ----------------------------------------------------------------
\* The API key is configured and the sync target answers 2xx.
Reachable == apiKey # NULL /\ target = "up"
\* No job is pending and no replay of a job is in progress.
NoJobPending ==
    /\ jobs = <<>>
    /\ \A c \in Calls : calls[c].via = "tick" => Returned(c)

\* C10 (as claimed): with the scheduler ticking, if the sync target
\* eventually stays reachable, pending jobs are eventually delivered and
\* none remains pending.
C10_NotLost == (<>[]Reachable) => ((jobs # <<>>) ~> NoJobPending)


\* --- C11 ----------------------------------------------------------------
\* C11 (as claimed): a login called with an absent or an empty code has
\* failed with ERR_NO_CODE as soon as it was called: no call to the identity
\* provider was made and the durable state is as the login found it.
C11_EmptyCodeRejected ==
    \A a \in Attempts :
        (att[a].pc # "idle" /\ att[a].code \in {NULL, ""})
            => /\ Finished(a) /\ att[a].result = "ERR_NO_CODE"
               /\ att[a].steps = {}
               /\ Durable = pre


\* --- C12 ----------------------------------------------------------------
\* The token exchange failed for a reason other than the revoked-code hint:
\* no response at all, a rejection without that hint, or no payload.
C12_ExchangeFailed(a) ==
    \/ att[a].reply.kind \in {"no_response", "error_plain", "nodata"}
    \/ att[a].reply.kind = "error_hint" /\ att[a].reply.hint \notin RevokedHints

\* C12 (as claimed): a login whose token exchange failed for any reason
\* other than the revoked-code hint has ended with ERR_INV_SCOPES.
C12_ExchangeFailureIsInvalidScopes ==
    \A a \in Attempts :
        C12_ExchangeFailed(a)
            => (Finished(a) /\ att[a].result = "ERR_INV_SCOPES")


\* --- C13 ----------------------------------------------------------------
\* The steps of login that follow the profile fetch.
C13_LaterSteps ==
    {"scope_check", "ban_lookup", "upsert_user", "upsert_data", "commit",
     "settings", "destroy", "create"}

\* C13: a login that is past its profile-fetch step without a profile (the
\* fetch was skipped for want of an access token, or it failed) has ended
\* with response.sendStatus(500); it made no scope check, ban lookup,
\* upsert, settings or session step, and durable state is as it found it.
C13_AbsentProfileAborts ==
    \A a \in Attempts :
        (/\ "exchanged" \in att[a].steps
         /\ att[a].pc # "userdata"
         /\ ~att[a].m_userData.some)
            => /\ Finished(a) /\ att[a].result = "HTTP500"
               /\ att[a].steps \cap C13_LaterSteps = {}
               /\ Durable = pre

\* C13 witness: the user is on file with a session, and a later login came
\* back with tokens but its profile call failed; it was aborted with 500.
C13_Witness ==
    \E a \in Attempts :
        /\ "profile_fetch" \in att[a].steps
        /\ ~att[a].m_userData.some
        /\ att[a].result = "HTTP500"
        /\ \E c \in Cids : users[c].exists /\ \E b \in Browsers : sessions[<<c, b>>] = 1


\* --- C14 ----------------------------------------------------------------
\* The refresh got a well-formed profile from the provider.
C14_ProfileFetched(a) ==
    /\ "profile_fetch" \in att[a].steps
    /\ att[a].m_userData.some /\ att[a].m_userData.personal # NULL

\* C14 (as claimed): a refresh never changes the session table; when its
\* profile fetch succeeded it has sent the user record as refreshed from
\* that profile; when the fetch yielded nothing it has answered with a
\* server error and User and UserData are as the refresh found them.
C14_RefreshContract ==
    \A a \in Attempts :
        att[a].op = "refresh"
            => /\ sessions = pre.sessions
               /\ (Finished(a) /\ C14_ProfileFetched(a))
                    => /\ att[a].result = "SENT_USER"
                       /\ users[CidOf(a)] = UserRow(att[a])
                       /\ userData[CidOf(a)] = UserDataRow(att[a])
               /\ (Finished(a) /\ ~att[a].m_userData.some)
                    => /\ att[a].result = "HTTP500"
                       /\ users = pre.users
                       /\ userData = pre.userData


\* --- C15 ----------------------------------------------------------------
\* C15 (as claimed): a login attempt takes its steps in the order START,
\* CODE_EXCHANGED, PROFILE_FETCHED, SCOPES_OK, NOT_SUSPENDED, RECONCILED,
\* SESSION_ISSUED, each only after the one before it succeeded; in
\* particular nothing after the reconciliation (settings, session
\* replacement) happens unless the attempt's transaction committed.
C15_StateMachine ==
    \A a \in Attempts :
        att[a].op = "login"
            => LET s == att[a].steps
               IN  /\ "profile_fetch" \in s => "exchanged" \in s
                   /\ "scope_check" \in s
                        => ("profile_fetch" \in s /\ att[a].m_userData.some)
                   /\ "ban_lookup" \in s
                        => ("scope_check" \in s
                            /\ Covers(att[a].m_suppliedScopes))
                   /\ "upsert_user" \in s
                        => ("ban_lookup" \in s
                            /\ CidOf(a) \notin banned
                            /\ att[a].m_userData.rating # 0)
                   /\ "commit" \in s => {"upsert_user", "upsert_data"} \subseteq s
                   /\ s \cap {"settings", "destroy", "create"} # {}
                        => "commit" \in s
                   /\ "create" \in s => "destroy" \in s


\* --- C16 ----------------------------------------------------------------
\* The attempt has started a reconciliation (_updateDatabase opened its
\* transaction and issued the first upsert).
C16_Reconciling(a) == "upsert_user" \in att[a].steps
\* The User row and the UserData row of the attempt's user are those the
\* attempt's reconciliation writes / those the attempt found.
C16_BothWritten(a) ==
    /\ users[CidOf(a)] = UserRow(att[a])
    /\ userData[CidOf(a)] = UserDataRow(att[a])
C16_BothAsFound(a) ==
    /\ users[CidOf(a)] = pre.users[CidOf(a)]
    /\ userData[CidOf(a)] = pre.userData[CidOf(a)]

\* C16: a User row is durable exactly when the UserData row of the same
\* user is; and for every reconciliation of a login or a refresh, the two
\* rows it upserts are both durable once it committed, and both as the
\* attempt found them while it is in progress and after it failed at
\* either upsert or at the commit.
C16_ReconciliationAtomic ==
    /\ \A c \in Cids : users[c].exists <=> userData[c].exists
    /\ \A a \in Attempts :
        C16_Reconciling(a)
            => IF "commit" \in att[a].steps
               THEN C16_BothWritten(a)
               ELSE C16_BothAsFound(a)

\* C16 witness: the user is on file from an earlier login; a later
\* reconciliation with other profile facts upserted the User row, failed at
\* the UserData upsert and was rolled back.
C16_Witness ==
    \E a \in Attempts :
        /\ "upsert_data" \in att[a].steps
        /\ "commit" \notin att[a].steps
        /\ ~att[a].tx.open
        /\ users[CidOf(a)].exists
        /\ users[CidOf(a)] # UserRow(att[a])


\* --- C17 ----------------------------------------------------------------
\* The provider's profile explicitly marks the token valid.
C17_MarkedValid(a) == att[a].m_userData.token_valid \in {"true", "TRUE"}
\* The User row holds the tokens of the attempt / holds no tokens.
C17_TokensStored(a) ==
    /\ users[CidOf(a)].access_token = att[a].m_accessToken
    /\ users[CidOf(a)].refresh_token = att[a].m_refreshToken
C17_TokensAbsent(a) ==
    /\ users[CidOf(a)].access_token = NULL
    /\ users[CidOf(a)].refresh_token = NULL

\* C17: once the reconciliation of a login or a refresh has committed, the
\* User row holds the attempt's access and refresh token if and only if the
\* profile marked the token valid; when it is marked invalid or the marker
\* is missing, both stored tokens are null.
C17_TokensIffValid ==
    \A a \in Attempts :
        "commit" \in att[a].steps
            => /\ C17_TokensStored(a) <=> C17_MarkedValid(a)
               /\ ~C17_MarkedValid(a) => C17_TokensAbsent(a)

\* C17 witness: a user whose tokens were on file is reconciled again with
\* a profile that has no validity marker; the committed row has no tokens.
C17_Witness ==
    \E a \in Attempts :
        /\ "commit" \in att[a].steps
        /\ att[a].m_userData.token_valid = NULL
        /\ pre.users[CidOf(a)].access_token = "tok1"
        /\ C17_TokensAbsent(a)


\* --- C18 ----------------------------------------------------------------
\* C18: a login that reaches its session-replacement step with no
\* unique-browser-token header ends there with the default
\* VatsimConnectException; it makes neither the destroy nor the create
\* step, and the session table is as the login found it.
C18_NoBrowserNoSessionChange ==
    \A a \in Attempts :
        (/\ att[a].op = "login" /\ att[a].browser = NULL
         /\ "settings" \in att[a].steps
         /\ att[a].pc # "finduser")
            => /\ Finished(a) /\ att[a].result = "ERR_DEFAULT"
               /\ att[a].steps \cap {"destroy", "create"} = {}
               /\ sessions = pre.sessions

\* C18 witness: the user holds a session from a browser; a later login of
\* the same user without the header was refused and the session is still
\* there.
C18_Witness ==
    \E a \in Attempts :
        /\ att[a].op = "login" /\ att[a].browser = NULL
        /\ "settings" \in att[a].steps
        /\ att[a].result = "ERR_DEFAULT"
        /\ \E b \in Browsers : sessions[<<CidOf(a), b>>] = 1


\* --- C19 ----------------------------------------------------------------
\* The attempt's scope validation ran on a granted scope list / let the
\* login go on.
C19_Validated(a) ==
    /\ att[a].op = "login" /\ "scope_check" \in att[a].steps
    /\ att[a].m_suppliedScopes.some
C19_Passed(a) == att[a].pc = "suspended" \/ "ban_lookup" \in att[a].steps

\* C19: the scope validation lets a login pass if and only if every scope
\* of the required list is one of the granted scopes; a login with a
\* required scope that was not granted has failed with ERR_INV_SCOPES.
C19_PassIffAllGranted ==
    \A a \in Attempts :
        C19_Validated(a)
            => /\ C19_Passed(a) <=> Covers(att[a].m_suppliedScopes)
               /\ ~Covers(att[a].m_suppliedScopes)
                    => (Finished(a) /\ att[a].result = "ERR_INV_SCOPES")

\* C19 witness: the provider granted the required scopes in another order
\* with one more scope, and the validation let the login pass.
C19_Witness ==
    \E a \in Attempts :
        /\ C19_Validated(a) /\ C19_Passed(a)
        /\ att[a].m_suppliedScopes.list =
              <<"country", "email", "vatsim_details", "full_name">>


\* --- C20 ----------------------------------------------------------------
\* The step in which a login runs UserSettings.findOrCreate.
C20_SettingsStep(a) ==
    att[a].op = "login" /\ att[a].pc = "settings" /\ att'[a].pc = "finduser"
\* After the step the user has a row; a row that existed before the step
\* is the same in every field, a new one is the row of the defaults; the
\* rows of the other users are as they were.
C20_CreateIfAbsent ==
    \A a \in Attempts :
        C20_SettingsStep(a)
            => /\ userSettings'[CidOf(a)].exists
               /\ userSettings'[CidOf(a)] =
                    IF userSettings[CidOf(a)].exists
                    THEN userSettings[CidOf(a)]
                    ELSE DefaultSettings
               /\ \A c \in Cids \ {CidOf(a)} :
                     userSettings'[c] = userSettings[c]

\* C20: every settings step of a login, in any sequence of logins and
\* changes of settings, leaves its user with a settings row, and leaves an
\* existing row unchanged in every field (create-if-absent, never
\* overwrite).
C20_SettingsCreateIfAbsent == [][C20_CreateIfAbsent]_vars

\* C20 witness: the user switched the language to "en" after a first
\* login; a later login of that user has made its settings step and the
\* language is still "en".
C20_Witness ==
    \E a \in Attempts :
        /\ att[a].op = "login" /\ att[a].pc = "finduser"
        /\ "settings" \in att[a].steps
        /\ pre.userSettings[CidOf(a)].exists
        /\ userSettings[CidOf(a)].language = "en"


\* --- C21 ----------------------------------------------------------------
\* The inline attempt of createSolo got a 2xx answer that carries the
\* remote identifier, and the call has returned.
C21_InlineSuccess(c) ==
    /\ Returned(c)
    /\ calls[c].op = "createSolo" /\ calls[c].via = "inline"
    /\ calls[c].reply.kind = "ok" /\ ~calls[c].reply.empty

\* C21: after an inline createSolo that succeeded, the identifier of the
\* response is the vateud_solo_id of the UserSolo row whose id is the
\* input's local_solo_id, every other row is as before, the queue is as
\* before, and the call returned the response.
C21_CreateSuccessWritesBack ==
    \A c \in Calls :
        C21_InlineSuccess(c)
            => LET id == calls[c].input.local_solo_id
               IN  /\ userSolo[id].vateud_solo_id = calls[c].reply.id
                   /\ \A i \in SoloIds \ {id} :
                         userSolo[i] = calls[c].soloBefore[i]
                   /\ jobs = calls[c].jobsBefore
                   /\ calls[c].ret.defined
                   /\ calls[c].ret.id = calls[c].reply.id

\* C21 witness: solo 1 was created inline and got "r-9" while a job of an
\* earlier failure is pending and solo 2 has no remote identifier.
C21_Witness ==
    \E c \in Calls :
        /\ C21_InlineSuccess(c)
        /\ calls[c].input.local_solo_id = 1
        /\ userSolo[1].vateud_solo_id = "r-9"
        /\ userSolo[2].vateud_solo_id = NULL
        /\ Len(jobs) = 1


\* --- C22 ----------------------------------------------------------------
\* The inline call failed and scheduled a job: the job is the last of the
\* queue.
C22_Scheduled(c, op) ==
    /\ Returned(c)
    /\ calls[c].op = op /\ calls[c].via = "inline"
    /\ DeliveryFailed(calls[c].reply)
C22_Job == jobs[Len(jobs)]

\* C22: the payload of a scheduled SOLO_CREATE job holds the input's
\* local_solo_id and the user_id, position, instructor_cid and expiry of
\* the post data, and the createSolo input rebuilt from it is the original
\* input; the payload of a scheduled SOLO_REMOVE job holds local_solo_id
\* and vateud_solo_id, and the removeSolo input rebuilt from it is the
\* original input.
C22_PayloadReplaysInput ==
    \A c \in Calls :
        /\ C22_Scheduled(c, "createSolo")
            => LET d == C22_Job.data.solo_create
                   i == calls[c].input
               IN  /\ C22_Job.type = "SOLO_CREATE"
                   /\ d.local_solo_id = i.local_solo_id
                   /\ d.user_id = i.post_data.user_id
                   /\ d.position = i.post_data.position
                   /\ d.instructor_cid = i.post_data.instructor_cid
                   /\ d.expire_at = i.post_data.expires_at
                   /\ ReplayCreateInput(C22_Job) = i
        /\ C22_Scheduled(c, "removeSolo")
            => LET d == C22_Job.data.solo_remove
                   i == calls[c].input
               IN  /\ C22_Job.type = "SOLO_REMOVE"
                   /\ d.local_solo_id = i.local_solo_id
                   /\ d.vateud_solo_id = i.vateud_solo_id
                   /\ ReplayRemoveInput(C22_Job) = i

\* C22 witness: a failed createSolo for solo 2 left its job pending, and a
\* failed removeSolo of solo 1 with remote identifier "r-10" has scheduled
\* its job behind it.
C22_Witness ==
    \E c \in Calls :
        /\ C22_Scheduled(c, "removeSolo")
        /\ calls[c].input = [local_solo_id |-> 1, vateud_solo_id |-> "r-10"]
        /\ Len(jobs) = 2
        /\ jobs[1].type = "SOLO_CREATE"
        /\ jobs[1].data.solo_create.local_solo_id = 2
        /\ jobs[2].type = "SOLO_REMOVE"


\* --- C23 ----------------------------------------------------------------
\* The queue a call started from: the pending jobs, without the job a
\* tick took for the replay.
C23_QueueBefore(c) ==
    IF calls[c].via = "tick" THEN Tail(calls[c].jobsBefore)
    ELSE calls[c].jobsBefore

\* C23 (as claimed): a call of createSolo or removeSolo schedules a job
\* only when its one HTTP attempt failed; after a 2xx answer, with or
\* without a body, the queue holds no new job.
C23_JobOnlyOnFailure ==
    \A c \in Calls :
        Returned(c)
            => /\ jobs # C23_QueueBefore(c) => DeliveryFailed(calls[c].reply)
               /\ calls[c].reply.kind = "ok" => jobs = C23_QueueBefore(c)


\* --- C24 ----------------------------------------------------------------
\* The refresh looked up its caller and found the row without tokens.
C24_NoTokensOnFile(a) ==
    /\ att[a].op = "refresh" /\ "find_caller" \in att[a].steps
    /\ pre.users[att[a].user_id].exists
    /\ pre.users[att[a].user_id].access_token = NULL
\* Such a refresh requests no profile, writes neither User nor UserData
\* and ends with response.sendStatus(500).
C24_RefreshFails ==
    \A a \in Attempts :
        C24_NoTokensOnFile(a)
            => /\ att[a].pc \in {"r_userdata", "done"}
               /\ Finished(a) => att[a].result = "HTTP500"
               /\ "profile_fetch" \notin att[a].steps
               /\ users = pre.users /\ userData = pre.userData
\* Tokens that are absent stay absent, except by the commit of a login of
\* that user whose profile marks the token valid.
C24_AbsentUntilLogin ==
    \A c \in Cids :
        (users[c].exists /\ users[c].access_token = NULL
         /\ users'[c].access_token # NULL)
            => \E a \in Attempts :
                  /\ att[a].op = "login" /\ att[a].pc = "tx_commit"
                  /\ att[a].m_userData.cid = c
                  /\ att[a].m_userData.token_valid \in {"true", "TRUE"}
                  /\ "commit" \in att'[a].steps

\* C24: once a reconciliation has stored a user's tokens as absent, every
\* refresh of that user answers with a server error and changes neither
\* User nor UserData, until a login of that user commits valid tokens.
C24_RefreshFailsUntilLogin ==
    []C24_RefreshFails /\ [][C24_AbsentUntilLogin]_vars

\* C24 witness: a committed reconciliation left the user without tokens,
\* and a later refresh of that user was answered with 500.
C24_Witness ==
    \E a \in Attempts :
        /\ C24_NoTokensOnFile(a)
        /\ att[a].result = "HTTP500"
        /\ userData[att[a].user_id].exists

=============================================================================
